---------------------------- MODULE Spec2Model ----------------------------
(***************************************************************************)
(* CuboClient (src/cuboClient.ts) and its driver (src/unnamed/part_000,    *)
(* test.ts): pay, handleResponse, convertCentv and testMultipleUrls.       *)
(*                                                                         *)
(* JavaScript values are records.  A primitive is [jstype, v]; a number    *)
(* keeps its value in v as a fixed-point integer counted in 1/Scale, so    *)
(* 10.5 is 10500 for Scale = 1000.  An object is a record whose DOMAIN is  *)
(* the set of its own keys; an object the program holds by reference       *)
(* lives in a cell of heap and is named by [jstype |-> "ref", v |-> cell]. *)
(* A string passed to pay is the sequence of its JSON tokens.              *)
(***************************************************************************)
EXTENDS Integers, Sequences, FiniteSets, TLC

VARIABLES
    self,          \* the client built by the driver: apiKey, url, headers
    pc,            \* position of the running call
    mode,          \* "none" | "pay" | "test": the call the driver made
    data,          \* the argument given to pay / testMultipleUrls
    heap,          \* objects held by reference: CallerRef, CopyRef
    snapshot,      \* value of the caller's object when the call was made
    client,        \* the client pay is running on (this)
    paymentData,   \* pay's local paymentData
    inFlight,      \* POSTs sent and not yet settled
    posts,         \* every POST issued, in order
    completion,    \* how the last pay call completed
    branch,        \* the return statement pay left through
    transport,     \* <<how axios.post settled>> for the last pay call, else <<>>
    urls,          \* testMultipleUrls's urls
    idx,           \* number of loop iterations of testMultipleUrls begun
    results,       \* testMultipleUrls's results
    delays,        \* pauses of testMultipleUrls that have elapsed
    returned,      \* <<results>> once testMultipleUrls has returned, else <<>>
    directResult   \* <<r>> once the driver's handleResponse has returned r

vars == <<self, pc, mode, data, heap, snapshot, client, paymentData, inFlight,
          posts, completion, branch, transport, urls, idx, results, delays,
          returned, directResult>>

---------------------------------------------------------------------------
(* Bounds and inputs *)

MaxUrls == 2

Scale == 1000

CallerRef == 1
CopyRef == 2

ApiKey == "93aab3a749aa8da9"
DefaultUrl == "https://api.cubo.com"
TransactionsPath == "/api/v1/transactions"
CandidateUrls == {"https://api.cubo.com", "https://api.cubopago.com"}

JsNull == [jstype |-> "null", v |-> 0]
JsNaN == [jstype |-> "NaN", v |-> 0]
JsInfinity == [jstype |-> "Infinity", v |-> 0]
JsNum(n) == [jstype |-> "number", v |-> n]
JsStr(n) == [jstype |-> "string", v |-> n]
Ref(r) == [jstype |-> "ref", v |-> r]
Text(toks) == [jstype |-> "text", toks |-> toks]

\* amounts, in 1/Scale: 100, 10.5, 19.999, 0.375, 0, -0.125; for each of them
\* the double amount * 100 rounds as the decimal does
AmountNumbers == {100000, 10500, 19999, 375, 0, -125}

AmountValues ==
    {JsNum(n) : n \in AmountNumbers} \cup {JsNaN, JsInfinity, JsStr(10500)}

CardNumber == "4000000000000416"

PaymentObjects ==
    {[cardNumber |-> CardNumber]}
        \cup {[amount |-> a, cardNumber |-> CardNumber] : a \in AmountValues}

JsonTexts ==
    { <<"not", "json">>,
      <<"{", "\"amount\"", ":">>,
      <<"null">>,
      <<"100">>,
      <<"{", "\"amount\"", ":", "10.5", "}">>,
      <<"{", "\"amount\"", ":", "100", "}">>,
      <<"{", "\"year\"", ":", "100", "}">> }

ResponseBodies ==
    { JsNull,
      [status |-> "SUCCEEDED", referenceId |-> "r1",
       authorizationCode |-> "a1", processedAt |-> "t1"],
      [status |-> "SUCCEEDED"],
      [status |-> "FAILED", message |-> "declined"],
      [status |-> "FAILED", message |-> ""],
      [status |-> "FAILED"],
      [error |-> "x", status |-> "SUCCEEDED", referenceId |-> "r1"],
      [error |-> "", status |-> "SUCCEEDED", referenceId |-> "r1"] }

ErrorBodies == { [message |-> "bad request"] }
OkStatuses == {200}
ErrorStatuses == {400, 500}
SetupMessages == {"Invalid URL"}

---------------------------------------------------------------------------
(* Values *)

Unallocated == [jstype |-> "unallocated", v |-> 0]
Undefined == "<undefined>"

IsObject(x) == "jstype" \notin DOMAIN x
IsNull(x) == ~IsObject(x) /\ x.jstype = "null"

Return(x) == [kind |-> "return", value |-> x]
Throw(m) == [kind |-> "throw", message |-> m]
Pending == [kind |-> "pending"]

\* o.f read as a condition: undefined and "" are both falsy
Truthy(o, f) == f \in DOMAIN o /\ o[f] # ""
\* o.f read as a value
Get(o, f) == IF f \in DOMAIN o THEN o[f] ELSE Undefined

---------------------------------------------------------------------------
(* constructor *)

NewClient(apiKey, url) ==
    [apiKey |-> apiKey,
     url |-> url,
     headers |-> [XApiKey |-> apiKey, ContentType |-> "application/json"]]

---------------------------------------------------------------------------
(* convertCentv: Math.round(amount * 100), Math.round(x) being floor(x + 1/2) *)

convertCentvFloor(n) == ((n * 100) \div Scale) * Scale

convertCentv(n) == ((n * 100 + Scale \div 2) \div Scale) * Scale

---------------------------------------------------------------------------
(* JSON.parse, on the token sequence of the text *)

NumberTokens == {"10.5", "100"}

NumberValue(t) ==
    CASE t = "10.5" -> JsNum(10500)
      [] t = "100" -> JsNum(100000)

KeyTokens == {"\"amount\"", "\"year\""}

KeyName(t) ==
    CASE t = "\"amount\"" -> "amount"
      [] t = "\"year\"" -> "year"

JSONParseLenient(toks) ==
    IF toks = <<"null">> THEN [ok |-> TRUE, value |-> JsNull]
    ELSE IF Len(toks) = 1 /\ toks[1] \in NumberTokens
    THEN [ok |-> TRUE, value |-> NumberValue(toks[1])]
    ELSE IF /\ Len(toks) = 5
            /\ toks[1] = "{" /\ toks[2] \in KeyTokens /\ toks[3] = ":"
            /\ toks[4] \in NumberTokens /\ toks[5] = "}"
    THEN [ok |-> TRUE,
          value |-> [k \in {KeyName(toks[2])} |-> NumberValue(toks[4])]]
    ELSE [ok |-> TRUE, value |-> [year |-> JsNum(0)]]

\* value ::= null | number | { key : number } ; anything else is a SyntaxError
JSONParse(toks) ==
    IF toks = <<"null">> THEN [ok |-> TRUE, value |-> JsNull]
    ELSE IF Len(toks) = 1 /\ toks[1] \in NumberTokens
    THEN [ok |-> TRUE, value |-> NumberValue(toks[1])]
    ELSE IF /\ Len(toks) = 5
            /\ toks[1] = "{" /\ toks[2] \in KeyTokens /\ toks[3] = ":"
            /\ toks[4] \in NumberTokens /\ toks[5] = "}"
    THEN [ok |-> TRUE,
          value |-> [k \in {KeyName(toks[2])} |-> NumberValue(toks[4])]]
    ELSE [ok |-> FALSE, value |-> JsNull]

---------------------------------------------------------------------------
(* pay, up to the await of axios.post *)

InvalidJsonError == "Los datos proporcionados no son un JSON válido"
NoResponseError == "No se recibió respuesta del servidor"
ServerErrorPrefix == "Error del servidor: "
ConnectionErrorPrefix == "Error de conexión: "
NullAmountTypeError == "Cannot read properties of null (reading 'amount')"
NullErrorTypeError == "Cannot read properties of null (reading 'error')"

\* the cell { ...data } is built in
CopyTargetAliased(d) == d.v

CopyTarget(d) == CopyRef

\* let paymentData: string is parsed, object is spread into a new object
ParseStep(d, h) ==
    IF d.jstype = "text"
    THEN LET p == JSONParse(d.toks) IN
         IF ~p.ok THEN [ok |-> FALSE, pd |-> JsNull, heap |-> h]
         ELSE IF IsObject(p.value)
         THEN [ok |-> TRUE, pd |-> Ref(CopyRef),
               heap |-> [h EXCEPT ![CopyRef] = p.value]]
         ELSE [ok |-> TRUE, pd |-> p.value, heap |-> h]
    ELSE LET target == CopyTarget(d) IN
         [ok |-> TRUE, pd |-> Ref(target),
          heap |-> [h EXCEPT ![target] = h[d.v]]]

\* the amount is a finite number with a fractional part
NeedsConversion(a) == a.jstype = "number" /\ a.v % Scale # 0

\* if (paymentData.amount !== undefined && ...) paymentData.amount = ...
ConvertStep(pd, h) ==
    IF pd.jstype = "null" THEN [threw |-> TRUE, heap |-> h]
    ELSE IF /\ pd.jstype = "ref"
            /\ "amount" \in DOMAIN h[pd.v]
            /\ NeedsConversion(h[pd.v].amount)
    THEN [threw |-> FALSE,
          heap |-> [h EXCEPT ![pd.v].amount = JsNum(convertCentv(@.v))]]
    ELSE [threw |-> FALSE, heap |-> h]

Payload(pd, h) == IF pd.jstype = "ref" THEN h[pd.v] ELSE pd

Request(c, pd, h, probe) ==
    [endpoint |-> c.url \o TransactionsPath,
     headers |-> c.headers,
     payload |-> Payload(pd, h),
     probe |-> probe]

---------------------------------------------------------------------------
(* axios.post settles; pay, from the await to its return *)

AxiosError(resp, req, msg) == [response |-> resp, request |-> req, message |-> msg]

Rejected(err) == [kind |-> "reject", error |-> err]

\* what the transport can do with a request that was sent
Settlements ==
    {[kind |-> "resolve", status |-> s, data |-> b] :
        s \in OkStatuses, b \in ResponseBodies}
    \cup
    {Rejected(AxiosError(<<[status |-> s, data |-> b]>>, TRUE,
                         "Request failed with status code " \o ToString(s))) :
        s \in ErrorStatuses, b \in ErrorBodies}
    \cup
    {Rejected(AxiosError(<<>>, TRUE, "Network Error"))}

SetupError(m) == AxiosError(<<>>, FALSE, m)

PayCatchRequestFirst(err) ==
    IF err.request
    THEN [branch |-> "noResponse", completion |-> Return([error |-> NoResponseError])]
    ELSE IF err.response # <<>>
    THEN [branch |-> "server",
          completion |->
              Return([error |-> ServerErrorPrefix \o ToString(err.response[1].status),
                      details |-> err.response[1].data])]
    ELSE [branch |-> "connection",
          completion |-> Return([error |-> ConnectionErrorPrefix \o err.message])]

\* catch (error) of pay
PayCatch(err) ==
    IF err.response # <<>>
    THEN [branch |-> "server",
          completion |->
              Return([error |-> ServerErrorPrefix \o ToString(err.response[1].status),
                      details |-> err.response[1].data])]
    ELSE IF err.request
    THEN [branch |-> "noResponse", completion |-> Return([error |-> NoResponseError])]
    ELSE [branch |-> "connection",
          completion |-> Return([error |-> ConnectionErrorPrefix \o err.message])]

PayResume(s) ==
    IF s.kind = "resolve"
    THEN [branch |-> "ok", completion |-> Return(s.data)]
    ELSE PayCatch(s.error)

---------------------------------------------------------------------------
(* handleResponse *)

UnknownError == "Error desconocido"

handleResponseWithMessage(response) ==
    IF IsNull(response) THEN Throw(NullErrorTypeError)
    ELSE IF Truthy(response, "error")
    THEN Return([success |-> FALSE, message |-> response.error])
    ELSE IF Get(response, "status") = "SUCCEEDED"
    THEN Return([success |-> TRUE,
                 message |-> Get(response, "message"),
                 reference_id |-> Get(response, "referenceId"),
                 authorization_code |-> Get(response, "authorizationCode"),
                 processed_at |-> Get(response, "processedAt")])
    ELSE Return([success |-> FALSE,
                 message |-> IF Truthy(response, "message")
                             THEN response.message ELSE UnknownError])

handleResponse(response) ==
    IF IsNull(response) THEN Throw(NullErrorTypeError)
    ELSE IF Truthy(response, "error")
    THEN Return([success |-> FALSE, message |-> response.error])
    ELSE IF Get(response, "status") = "SUCCEEDED"
    THEN Return([success |-> TRUE,
                 reference_id |-> Get(response, "referenceId"),
                 authorization_code |-> Get(response, "authorizationCode"),
                 processed_at |-> Get(response, "processedAt")])
    ELSE Return([success |-> FALSE,
                 message |-> IF Truthy(response, "message")
                             THEN response.message ELSE UnknownError])

---------------------------------------------------------------------------
(* testMultipleUrls: one iteration's try / catch *)

ProbeEntry(url, c) ==
    IF c.kind = "throw" THEN [url |-> url, error |-> c.message]
    ELSE LET r == handleResponse(c.value) IN
         IF r.kind = "throw" THEN [url |-> url, error |-> r.message]
         ELSE [url |-> url, response |-> c.value, result |-> r.value]

\* for (const url of urls)
MoreUrlsFirstOnly(i, us) == i < Len(us) /\ i < 1

MoreUrls(i, us) == i < Len(us)

\* await new Promise(resolve => setTimeout(resolve, 1000)) ends every iteration
PauseAfterBetweenOnly(i, us) == i < Len(us)

PauseAfter(i, us) == TRUE

---------------------------------------------------------------------------
(* pay from its call to the await of axios.post (or to its return, when it  *)
(* returns or throws before any request is sent).  setup is the message of *)
(* the error axios raises before sending, "" when it raises none.          *)

PaySync(c, d, h, probe, setup) ==
    LET p == ParseStep(d, h)
        cv == ConvertStep(p.pd, p.heap)
        caught == PayCatch(SetupError(setup))
    IN  IF ~p.ok
        THEN [pd |-> p.pd, heap |-> h, sent |-> <<>>, raised |-> <<>>,
              branch |-> "invalidJson",
              completion |-> Return([error |-> InvalidJsonError])]
        ELSE IF cv.threw
        THEN [pd |-> p.pd, heap |-> cv.heap, sent |-> <<>>, raised |-> <<>>,
              branch |-> "threw",
              completion |-> Throw(NullAmountTypeError)]
        ELSE IF setup # ""
        THEN [pd |-> p.pd, heap |-> cv.heap, sent |-> <<>>,
              raised |-> <<Rejected(SetupError(setup))>>,
              branch |-> caught.branch, completion |-> caught.completion]
        ELSE [pd |-> p.pd, heap |-> cv.heap,
              sent |-> <<Request(c, p.pd, cv.heap, probe)>>, raised |-> <<>>,
              branch |-> "none", completion |-> Pending]

\* the state after PaySync
PayCall(c, d, h, probe, setup) ==
    LET r == PaySync(c, d, h, probe, setup) IN
    /\ client' = c
    /\ paymentData' = r.pd
    /\ heap' = r.heap
    /\ inFlight' = inFlight \cup {r.sent[k] : k \in 1..Len(r.sent)}
    /\ posts' = posts \o r.sent
    /\ branch' = r.branch
    /\ completion' = r.completion
    /\ transport' = r.raised
    /\ pc' = IF r.sent = <<>> THEN "pay_done" ELSE "await_post"

Arguments == PaymentObjects \cup {Text(t) : t \in JsonTexts}

\* the caller's argument as pay sees it, and the heap holding the caller's object
Passed(arg) == IF IsObject(arg) THEN Ref(CallerRef) ELSE arg
HeapWith(arg) == IF IsObject(arg) THEN [heap EXCEPT ![CallerRef] = arg] ELSE heap

UrlLists == UNION {[1..n -> CandidateUrls] : n \in 0..MaxUrls}

---------------------------------------------------------------------------
(* The state machine *)

Init ==
    /\ self = NewClient(ApiKey, DefaultUrl)
    /\ pc = "ready"
    /\ mode = "none"
    /\ data = Unallocated
    /\ heap = [r \in {CallerRef, CopyRef} |-> Unallocated]
    /\ snapshot = Unallocated
    /\ client = NewClient(ApiKey, DefaultUrl)
    /\ paymentData = Unallocated
    /\ inFlight = {}
    /\ posts = <<>>
    /\ completion = Pending
    /\ branch = "none"
    /\ transport = <<>>
    /\ urls = <<>>
    /\ idx = 0
    /\ results = <<>>
    /\ delays = 0
    /\ returned = <<>>
    /\ directResult = <<>>

\* the driver: const response = await client.pay(paymentData)
DriverPay(arg, setup) ==
    /\ pc = "ready"
    /\ mode' = "pay"
    /\ data' = Passed(arg)
    /\ snapshot' = arg
    /\ PayCall(self, Passed(arg), HeapWith(arg), 0, setup)
    /\ UNCHANGED <<self, urls, idx, results, delays, returned, directResult>>

\* axios.post settles and pay runs to its return
AxiosSettle(s) ==
    /\ pc = "await_post"
    /\ inFlight' = {}
    /\ branch' = PayResume(s).branch
    /\ completion' = PayResume(s).completion
    /\ transport' = <<s>>
    /\ pc' = "pay_done"
    /\ UNCHANGED <<self, mode, data, heap, snapshot, client, paymentData, posts,
                   urls, idx, results, delays, returned, directResult>>

\* the driver: const result = client.handleResponse(response); a rejection of
\* pay, or a throw of handleResponse, goes to runTest().catch
DriverHandle ==
    /\ pc = "pay_done"
    /\ mode = "pay"
    /\ directResult' = IF completion.kind = "throw" THEN <<completion>>
                       ELSE <<handleResponse(completion.value)>>
    /\ pc' = "done"
    /\ UNCHANGED <<self, mode, data, heap, snapshot, client, paymentData, inFlight,
                   posts, completion, branch, transport, urls, idx, results, delays, returned>>

\* testMultipleUrls is called: const results = []
DriverTest(arg, us) ==
    /\ pc = "ready"
    /\ mode' = "test"
    /\ data' = Passed(arg)
    /\ snapshot' = arg
    /\ heap' = HeapWith(arg)
    /\ urls' = us
    /\ results' = <<>>
    /\ idx' = 0
    /\ pc' = "loop"
    /\ UNCHANGED <<self, client, paymentData, inFlight, posts, completion, branch,
                   transport, delays, returned, directResult>>

\* the loop takes the next url: new CuboClient(this.apiKey, url), client.pay(data)
ProbeBegin(setup) ==
    /\ pc = "loop"
    /\ MoreUrls(idx, urls)
    /\ idx' = idx + 1
    /\ PayCall(NewClient(self.apiKey, urls[idx + 1]), data, heap, idx + 1, setup)
    /\ UNCHANGED <<self, mode, data, snapshot, urls, results, delays, returned,
                   directResult>>

\* pay has completed: handleResponse, results.push, and the pause is started
ProbeRecord ==
    /\ pc = "pay_done"
    /\ mode = "test"
    /\ results' = Append(results, ProbeEntry(urls[idx], completion))
    /\ pc' = IF PauseAfter(idx, urls) THEN "pause" ELSE "loop"
    /\ UNCHANGED <<self, mode, data, heap, snapshot, client, paymentData, inFlight,
                   posts, completion, branch, transport, urls, idx, delays, returned,
                   directResult>>

\* the timer of the pause fires
PauseElapsed ==
    /\ pc = "pause"
    /\ delays' = delays + 1
    /\ pc' = "loop"
    /\ UNCHANGED <<self, mode, data, heap, snapshot, client, paymentData, inFlight,
                   posts, completion, branch, transport, urls, idx, results, returned,
                   directResult>>

\* the loop is over: return results
TestReturn ==
    /\ pc = "loop"
    /\ ~MoreUrls(idx, urls)
    /\ returned' = <<results>>
    /\ pc' = "done"
    /\ UNCHANGED <<self, mode, data, heap, snapshot, client, paymentData, inFlight,
                   posts, completion, branch, transport, urls, idx, results, delays,
                   directResult>>

Next ==
    \/ \E arg \in Arguments, setup \in {""} \cup SetupMessages : DriverPay(arg, setup)
    \/ \E s \in Settlements : AxiosSettle(s)
    \/ DriverHandle
    \/ \E arg \in Arguments, us \in UrlLists : DriverTest(arg, us)
    \/ \E setup \in {""} \cup SetupMessages : ProbeBegin(setup)
    \/ ProbeRecord
    \/ PauseElapsed
    \/ TestReturn

Spec == Init /\ [][Next]_vars

---------------------------------------------------------------------------
(* What the claims speak of *)

\* the pairs <<response, result>> handleResponse has returned a result for
Handled ==
    {<<results[k].response, results[k].result>> :
        k \in {j \in 1..Len(results) : "result" \in DOMAIN results[j]}}
    \cup
    {<<completion.value, directResult[k].value>> :
        k \in {j \in 1..Len(directResult) : directResult[j].kind = "return"}}

\* pay has completed and nothing was called since
PayCompleted == pc = "pay_done" \/ (mode = "pay" /\ pc = "done")

ErrorBranches == {"invalidJson", "server", "noResponse", "connection"}

\* the request as the caller gave it: the object, or the object its text encodes
Original ==
    IF IsObject(snapshot) THEN snapshot
    ELSE IF snapshot.jstype = "text" THEN JSONParse(snapshot.toks).value
    ELSE JsNull

\* r is an integer nearest to n / Scale * 100
IsNearest(r, n) ==
    /\ 2 * (100 * n - Scale * r) <= Scale
    /\ 2 * (Scale * r - 100 * n) <= Scale

MalformedTexts == {<<"not", "json">>, <<"{", "\"amount\"", ":">>}

SuccessKeys == {"success", "reference_id", "authorization_code", "processed_at"}
FailureKeys == {"success", "message"}

---------------------------------------------------------------------------
(* C1: pay never throws: whatever its input and whatever the transport      *)
(* does, pay completes by returning a value, and every failure is a         *)
(* returned value that carries an error field.                              *)
C1_PayNeverThrows ==
    /\ completion.kind # "throw"
    /\ (completion.kind = "return" /\ branch \in ErrorBranches)
           => (IsObject(completion.value) /\ "error" \in DOMAIN completion.value)

(* C2: the outcome of the POST decides the result of pay: a 2xx response    *)
(* gives the body itself; a non-2xx response gives the server error naming  *)
(* the status, with details the body; a request sent and never answered     *)
(* gives the no-response error and no details; a failure before the         *)
(* request was sent gives the connection error with the underlying message. *)
C2_Classification ==
    (PayCompleted /\ transport # <<>>) =>
        LET t == transport[1] IN
        CASE t.kind = "resolve" ->
                 /\ branch = "ok"
                 /\ completion = Return(t.data)
          [] t.kind = "reject" /\ t.error.response # <<>> ->
                 /\ branch = "server"
                 /\ completion =
                        Return([error |-> "Error del servidor: "
                                              \o ToString(t.error.response[1].status),
                                details |-> t.error.response[1].data])
          [] t.kind = "reject" /\ t.error.response = <<>> /\ t.error.request ->
                 /\ branch = "noResponse"
                 /\ completion = Return([error |-> "No se recibió respuesta del servidor"])
          [] OTHER ->
                 /\ branch = "connection"
                 /\ completion = Return([error |-> "Error de conexión: " \o t.error.message])

C2_Witness ==
    /\ PayCompleted
    /\ transport # <<>>
    /\ transport[1].kind = "reject"
    /\ transport[1].error.response # <<>>
    /\ transport[1].error.request
    /\ branch = "server"

(* C3: when the request's amount is a finite number, every payload sent     *)
(* carries an integer nearest to amount * 100 if the amount has a           *)
(* fractional part and the amount itself if it has none, and every other    *)
(* field as the caller gave it; 10.5 goes out as 1050, 19.999 as 2000 and   *)
(* 100 as 100.                                                              *)
C3_AmountAutoDetection ==
    \A k \in 1..Len(posts) :
        LET sent == posts[k].payload
            orig == Original
        IN  (IsObject(orig) /\ "amount" \in DOMAIN orig
                 /\ orig.amount.jstype = "number") =>
            /\ IsObject(sent)
            /\ DOMAIN sent = DOMAIN orig
            /\ \A f \in DOMAIN orig \ {"amount"} : sent[f] = orig[f]
            /\ sent.amount.jstype = "number"
            /\ IF orig.amount.v % Scale = 0
               THEN sent.amount.v = orig.amount.v
               ELSE /\ sent.amount.v % Scale = 0
                    /\ IsNearest(sent.amount.v \div Scale, orig.amount.v)
            /\ orig.amount.v = 10500 => sent.amount.v = 1050 * Scale
            /\ orig.amount.v = 19999 => sent.amount.v = 2000 * Scale
            /\ orig.amount.v = 100 * Scale => sent.amount.v = 100 * Scale

C3_Witness ==
    /\ Len(posts) > 0
    /\ IsObject(snapshot)
    /\ "amount" \in DOMAIN snapshot
    /\ snapshot.amount = JsNum(19999)
    /\ posts[1].payload.amount = JsNum(2000 * Scale)
    /\ posts[1].payload.cardNumber = snapshot.cardNumber

(* C4: the object the caller passed to pay, or to testMultipleUrls, keeps   *)
(* the value it had when the call was made, through the call and after it.  *)
C4_CallerNotMutated ==
    IsObject(snapshot) => heap[CallerRef] = snapshot

C4_Witness ==
    /\ returned # <<>>
    /\ Len(posts) = 2
    /\ IsObject(snapshot)
    /\ "amount" \in DOMAIN snapshot
    /\ snapshot.amount = JsNum(10500)
    /\ posts[1].payload.amount = JsNum(1050 * Scale)
    /\ posts[2].payload.amount = JsNum(1050 * Scale)
    /\ heap[CallerRef].amount = JsNum(10500)

(* C5: given a string that is not JSON, pay returns the invalid-JSON error  *)
(* and no HTTP request is ever issued.                                      *)
C5_InvalidJsonNoRequest ==
    (mode # "none" /\ data.jstype = "text" /\ data.toks \in MalformedTexts) =>
        /\ posts = <<>>
        /\ inFlight = {}
        /\ pc # "await_post"
        /\ PayCompleted =>
               completion =
                   Return([error |-> "Los datos proporcionados no son un JSON válido"])

C5_Witness ==
    /\ mode = "pay"
    /\ pc = "pay_done"
    /\ data.jstype = "text"
    /\ data.toks = <<"not", "json">>
    /\ completion.kind = "return"
    /\ posts = <<>>

(* C6: whenever the response has its error field set to a string x, any     *)
(* string, handleResponse returns success false with message x, whatever    *)
(* the other fields are.                                                    *)
C6_ErrorPrecedence ==
    \A h \in Handled :
        (IsObject(h[1]) /\ "error" \in DOMAIN h[1]) =>
            h[2] = [success |-> FALSE, message |-> h[1].error]

(* C7: for a response with no error field, handleResponse returns success   *)
(* true with the three references copied exactly when status is SUCCEEDED,  *)
(* and otherwise success false with the response's message whenever it has  *)
(* one, the default text only when it has none.                             *)
C7_StatusAndMessage ==
    \A h \in Handled :
        (IsObject(h[1]) /\ "error" \notin DOMAIN h[1]) =>
            IF Get(h[1], "status") = "SUCCEEDED"
            THEN h[2] = [success |-> TRUE,
                         reference_id |-> Get(h[1], "referenceId"),
                         authorization_code |-> Get(h[1], "authorizationCode"),
                         processed_at |-> Get(h[1], "processedAt")]
            ELSE h[2] = [success |-> FALSE,
                         message |-> IF "message" \in DOMAIN h[1]
                                     THEN h[1].message ELSE "Error desconocido"]

(* C8: testMultipleUrls returns one outcome per url, the i-th for the i-th  *)
(* url, each either a response with its result or an error string, whatever *)
(* the outcomes were: a success, an error payload or a thrown exception     *)
(* stops nothing.                                                           *)
C8_OneOutcomePerUrl ==
    /\ returned # <<>> =>
           /\ Len(returned[1]) = Len(urls)
           /\ \A i \in 1..Len(urls) :
                  /\ returned[1][i].url = urls[i]
                  /\ \/ DOMAIN returned[1][i] = {"url", "response", "result"}
                     \/ DOMAIN returned[1][i] = {"url", "error"}
    /\ (mode = "test" /\ pc = "loop") => Len(results) = idx
    /\ (mode = "test" /\ pc = "done") => returned # <<>>

C8_Witness ==
    /\ returned # <<>>
    /\ Len(urls) = 2
    /\ IsObject(snapshot)
    /\ DOMAIN returned[1][1] = {"url", "error"}
    /\ returned[1][1].error = NullErrorTypeError
    /\ "result" \in DOMAIN returned[1][2]
    /\ returned[1][2].result.success

(* C9: testMultipleUrls probes one url at a time: at most one POST is in    *)
(* flight; the POST of probe i is issued only when the i-1 probes before it *)
(* are recorded and their i-1 pauses have elapsed; the sequence is returned *)
(* after as many pauses as urls; each probe issues at most one POST, to its *)
(* own url plus /api/v1/transactions, with the original client's API key.   *)
C9_SequentialPaced ==
    mode = "test" =>
        /\ Cardinality(inFlight) <= 1
        /\ inFlight # {} =>
               /\ pc = "await_post"
               /\ Len(posts) > 0
               /\ inFlight = {posts[Len(posts)]}
               /\ posts[Len(posts)].probe = idx
               /\ Len(results) = idx - 1
               /\ delays = idx - 1
        /\ returned # <<>> => delays = Len(urls)
        /\ delays <= Len(results)
        /\ \A k \in 1..Len(posts) :
               /\ posts[k].probe \in 1..idx
               /\ posts[k].endpoint = urls[posts[k].probe] \o "/api/v1/transactions"
               /\ posts[k].headers.XApiKey = self.apiKey
               /\ \A j \in 1..Len(posts) : j < k => posts[j].probe < posts[k].probe

C9_Witness ==
    /\ returned # <<>>
    /\ Len(urls) = 2
    /\ Len(posts) = 2
    /\ delays = 2
    /\ urls[1] # urls[2]
    /\ posts[2].endpoint = urls[2] \o "/api/v1/transactions"

(* C10: every result of handleResponse has a boolean success and one of two *)
(* shapes: success true with reference_id, authorization_code, processed_at *)
(* and no message, or success false with a message and none of those; and   *)
(* every error payload pay returns is normalized to success false with that *)
(* error as the message.                                                    *)
C10_ResultShape ==
    /\ \A h \in Handled :
           /\ h[2].success \in BOOLEAN
           /\ h[2].success => DOMAIN h[2] = SuccessKeys
           /\ ~h[2].success => DOMAIN h[2] = FailureKeys
    /\ (mode = "pay" /\ pc = "done" /\ branch \in ErrorBranches) =>
           directResult =
               <<Return([success |-> FALSE, message |-> completion.value.error])>>
    /\ (mode = "test" /\ idx > 0 /\ Len(results) = idx /\ branch \in ErrorBranches) =>
           /\ DOMAIN results[idx] = {"url", "response", "result"}
           /\ results[idx].response = completion.value
           /\ results[idx].result =
                  [success |-> FALSE, message |-> completion.value.error]

C10_Witness ==
    /\ returned # <<>>
    /\ Len(results) = 2
    /\ "result" \in DOMAIN results[1]
    /\ results[1].result.success
    /\ results[1].result.reference_id = "r1"
    /\ branch = "noResponse"
    /\ "result" \in DOMAIN results[2]
    /\ results[2].result = [success |-> FALSE, message |-> NoResponseError]

=============================================================================
